---- MODULE Spec2Model ----
(***************************************************************************)
(* Model of src/torch_model.py: the Driver network (tensor shapes of its   *)
(* construction and forward pass) and the train() loop (epochs, batches,   *)
(* loss histories, best-checkpoint state).                                 *)
(*                                                                         *)
(* Tensors are modelled by their shapes (sequences of dimension sizes);    *)
(* losses by non-negative integers, their means by exact fractions         *)
(* <<sum, count>>, NaN for the mean of an empty tensor.  Model parameters  *)
(* and the optimizer state are modelled by the number of updates applied.  *)
(***************************************************************************)
EXTENDS Integers, Sequences, FiniteSets

\* ------------------------------------------------------------------ bounds
MaxEpochs == 2
MaxBatches == 2
MaxBatch == 4
MaxCalls == 2

\* ------------------------------------------------------- program constants
ImgRows == 66
ImgCols == 200
ImgChannels == 3
Sentinel == 1000000
Lin1Out == 100
Lin2Out == 50
Lin3In == 51
Lin3Out == 10
Lin4Out == 3

\* A raised exception, as the value of a tensor-shape computation.
ERR == <<0 - 1>>

\* ---------------------------------------------------------- tensor shapes
RECURSIVE Squeeze(_)
\* Tensor.squeeze(): every dimension of size 1 is removed.
Squeeze(s) ==
    IF s = <<>> THEN <<>>
    ELSE IF Head(s) = 1 THEN Squeeze(Tail(s))
    ELSE <<Head(s)>> \o Squeeze(Tail(s))

\* Tensor.unsqueeze(0)
Unsqueeze0(s) == <<1>> \o s

\* Tensor.T: the dimensions reversed.
Transpose(s) == [k \in 1..Len(s) |-> s[Len(s) + 1 - k]]

\* Tensor.permute(0,3,1,2) of a 4-D tensor (batch,H,W,C) -> (batch,C,H,W).
Permute0312(s) == IF Len(s) = 4 THEN <<s[1], s[4], s[2], s[3]>> ELSE ERR

\* torch.flatten(t, start_dim=1, end_dim=3)
Flatten13(s) == IF Len(s) = 4 THEN <<s[1], s[2] * s[3] * s[4]>> ELSE ERR

\* The dimension of s that is k places from the right, 1 when s has none.
DimFromRight(s, k) == IF k <= Len(s) THEN s[Len(s) + 1 - k] ELSE 1

MaxOf(a, b) == IF a >= b THEN a ELSE b

\* torch.broadcast_tensors: trailing dimensions are aligned; each pair must
\* be equal or contain a 1.
Broadcastable(a, b) ==
    \A k \in 1..MaxOf(Len(a), Len(b)) :
        \/ DimFromRight(a, k) = DimFromRight(b, k)
        \/ DimFromRight(a, k) = 1
        \/ DimFromRight(b, k) = 1

\* Output size of one spatial dimension of an unpadded convolution.
ConvOut(n, k, s) == ((n - k) \div s) + 1

\* nn.Conv2d applied to a shape (batch, channels, rows, cols).
Conv2d(layer, s) ==
    IF s = ERR \/ Len(s) # 4 THEN ERR
    ELSE IF s[2] # layer.cin \/ s[3] < layer.k \/ s[4] < layer.k THEN ERR
    ELSE <<s[1], layer.cout, ConvOut(s[3], layer.k, layer.s),
           ConvOut(s[4], layer.k, layer.s)>>

\* nn.Linear applied to a shape whose last dimension is the feature width.
Linear(layer, s) ==
    IF s = ERR \/ Len(s) = 0 THEN ERR
    ELSE IF s[Len(s)] # layer.fin THEN ERR
    ELSE [k \in 1..Len(s) |-> IF k = Len(s) THEN layer.fout ELSE s[k]]

\* torch.cat((a, b), 1) of two 2-D tensors.
Cat1(a, b) ==
    IF a = ERR \/ b = ERR \/ Len(a) # 2 \/ Len(b) # 2 THEN ERR
    ELSE IF a[1] # b[1] THEN ERR
    ELSE <<a[1], a[2] + b[2]>>

\* ------------------------------------------------------------------ Driver
Conv1 == [cin |-> 3, cout |-> 24, k |-> 5, s |-> 2]
Conv2 == [cin |-> 24, cout |-> 36, k |-> 5, s |-> 2]
Conv3 == [cin |-> 36, cout |-> 48, k |-> 5, s |-> 2]
Conv4 == [cin |-> 48, cout |-> 64, k |-> 3, s |-> 1]
Conv5 == [cin |-> 64, cout |-> 64, k |-> 3, s |-> 1]

\* Driver._convs without its assignment: the shape of `flat`, or ERR when a
\* convolution or the flatten raises.
ConvsFlat(image) ==
    Flatten13(Conv2d(Conv5, Conv2d(Conv4, Conv2d(Conv3,
              Conv2d(Conv2, Conv2d(Conv1, image))))))

\* Driver._convs: the returned shape and the network after the call; the
\* assignment self.flattened_size = flat.shape[1] happens on every call that
\* reaches it.
Convs(n, image) ==
    LET flat == ConvsFlat(image) IN
    IF flat = ERR THEN [flat |-> ERR, net |-> n]
    ELSE [flat |-> flat, net |-> [n EXCEPT !.flattened_size = flat[2]]]

\* Driver.__init__ with lin1 sized by first_linear_size instead of the
\* width found by the dummy pass.
DriverInit_firstLinear(batch_size) ==
    LET n0 == [first_linear_size |-> 1, flattened_size |-> 0,
               lin1 |-> [fin |-> 0, fout |-> Lin1Out],
               lin2 |-> [fin |-> Lin1Out, fout |-> Lin2Out],
               lin3 |-> [fin |-> Lin3In, fout |-> Lin3Out],
               lin4 |-> [fin |-> Lin3Out, fout |-> Lin4Out],
               training |-> TRUE]
        n1 == Convs(n0, <<batch_size, ImgChannels, ImgRows, ImgCols>>).net
    IN  [n1 EXCEPT !.lin1 = [fin |-> n1.first_linear_size, fout |-> Lin1Out]]

\* Driver.__init__(batch_size)
DriverInit(batch_size) ==
    LET n0 == [first_linear_size |-> 1, flattened_size |-> 0,
               lin1 |-> [fin |-> 0, fout |-> Lin1Out],
               lin2 |-> [fin |-> Lin1Out, fout |-> Lin2Out],
               lin3 |-> [fin |-> Lin3In, fout |-> Lin3Out],
               lin4 |-> [fin |-> Lin3Out, fout |-> Lin4Out],
               training |-> TRUE]
        n1 == Convs(n0, <<batch_size, ImgChannels, ImgRows, ImgCols>>).net
    IN  [n1 EXCEPT !.lin1 = [fin |-> n1.flattened_size, fout |-> Lin1Out]]

\* Driver.forward(sample), sample = <<image shape, speed shape>>: the shape
\* returned (ERR when a layer raises) and the network after the call.
Forward(n, smp) ==
    LET c == Convs(n, smp[1])
        lin1 == Linear(n.lin1, c.flat)
        lin2 == Linear(n.lin2, lin1)
        featureAdded == Cat1(lin2, smp[2])
        lin3 == Linear(n.lin3, featureAdded)
        lin4 == Linear(n.lin4, lin3)
    IN  [out |-> IF lin4 = ERR THEN ERR ELSE Squeeze(lin4), net |-> c.net]

\* ------------------------------------------------------------------ losses
\* Per-batch values of lossFunc (sum of squared errors, hence >= 0): a small
\* one and one as large as the sentinel, so that means tie, improve and reach
\* the sentinel.  Float rounding is not modelled.
LossVals == {1, Sentinel}

\* A scalar float tensor: <<numerator, denominator>>; NaN has denominator 0.
NaN == <<0, 0>>
Scalar(v) == <<v, 1>>
IsNaN(a) == a[2] = 0

\* a < b on float scalars: false when either side is NaN.
Less(a, b) == ~IsNaN(a) /\ ~IsNaN(b) /\ a[1] * b[2] < b[1] * a[2]

RECURSIVE SeqSum(_)
SeqSum(s) == IF s = <<>> THEN 0 ELSE Head(s) + SeqSum(Tail(s))

\* Tensor.mean() of a 1-D tensor of losses; NaN for the empty tensor.
Mean(s) == IF s = <<>> THEN NaN ELSE <<SeqSum(s), Len(s)>>

\* ------------------------------------------------------------------- state
VARIABLES
    batch_size,               \* argument of Driver(...)
    net,                      \* the Driver instance (layer widths, mode)
    sample,                   \* argument of the last forward call
    outputs,                  \* shape returned by the last forward call
    calls,                    \* direct forward calls made (Driver runs)
    pc,                       \* position in train()
    epochs,                   \* argument of train()
    trainingLoader,           \* [n: batches per pass, bs: samples per batch]
    validationLoader,
    i,                        \* loop variable of the epoch loop
    tIdx, vIdx,               \* position of the current loader iterators
    batch,                    \* shapes of the batch just fetched
    loss,                     \* value of the last lossFunc call
    training_losses, validation_losses,
    training_epoch_losses, validation_epoch_losses,
    valLossMean,
    min_lost,
    ckpt,                     \* driver_best.pt: <<>> or <<snapshot>>
    grad,                     \* batches whose gradient is held in .grad
    params,                   \* parameter updates applied so far
    optSteps,                 \* optimizer state: Adam steps taken
    visCalls,                 \* arguments of each vis_train call
    hist                      \* history of the run (record of observations)

driverVars == <<batch_size, net, sample, outputs, calls>>
loopVars == <<epochs, trainingLoader, validationLoader, i, tIdx, vIdx, batch, loss>>
lossVars == <<training_losses, validation_losses, training_epoch_losses,
              validation_epoch_losses, valLossMean, min_lost>>
modelVars == <<ckpt, grad, params, optSteps, visCalls>>
vars == <<driverVars, pc, loopVars, lossVars, modelVars, hist>>

\* What torch.save(model, ...) persists.
Snapshot == [params |-> params, net |-> net]

Loaders == [n : 0..MaxBatches, bs : 1..MaxBatch]

\* One batch of a loader: (image, speed, label) with bs samples.
BatchOf(loader) ==
    [img |-> <<loader.bs, ImgRows, ImgCols, ImgChannels>>,
     speed |-> <<loader.bs>>,
     labels |-> <<loader.bs>>]

NoBatch == [img |-> <<>>, speed |-> <<>>, labels |-> <<>>]

ZeroCount == [v \in LossVals |-> 0]

\* The observations kept of a run: they are written, never read, by the
\* actions below.
Hist0 ==
    [tLog |-> <<>>,            \* per epoch: how often each training loss occurred
     vLog |-> <<>>,            \* per epoch: how often each validation loss occurred
     tFetched |-> 0,           \* training batches fetched in this epoch
     vFetched |-> 0,           \* validation batches fetched in this epoch
     fwdTraining |-> TRUE,     \* mode of the model in the last forward pass
     stepGrad |-> <<>>,        \* per optimizer step: batches in the gradient used
     valStart |-> <<0, 0>>,    \* <<params, optSteps>> when validation began
     writes |-> 0,             \* torch.save calls
     wroteNow |-> FALSE,       \* the last checkpoint decision saved
     prevBest |-> Scalar(Sentinel), \* min_lost before the last decision
     prevCkpt |-> <<>>,        \* the file before the last decision
     ckptEpoch |-> 0,          \* epoch (1-based) of the last torch.save
     epochEnd |-> <<>>,        \* snapshot of the model at each epoch's end
     ckptAtEpochEnd |-> <<>>,  \* the file as of the last completed epoch
     failedAt |-> "none",      \* position at which an exception was raised
     cause |-> "none"]         \* "shape": raised by a shape check of the code's
                               \* own tensors; "external": raised otherwise

TrainInit ==
    /\ pc = "epoch_head"
    /\ epochs \in 0..MaxEpochs
    /\ trainingLoader \in Loaders
    /\ validationLoader \in Loaders
    /\ i = 0 /\ tIdx = 0 /\ vIdx = 0
    /\ batch = NoBatch
    /\ loss = 0
    /\ training_losses = <<>> /\ validation_losses = <<>>
    /\ training_epoch_losses = <<>> /\ validation_epoch_losses = <<>>
    /\ valLossMean = NaN
    /\ min_lost = Scalar(Sentinel)
    /\ ckpt = <<>>
    /\ grad = 0 /\ params = 0 /\ optSteps = 0
    /\ visCalls = <<>>
    /\ hist = Hist0

\* A run of train(): the network is built for the training loader's batch
\* size and handed to train().
Init ==
    /\ TrainInit
    /\ batch_size = trainingLoader.bs
    /\ net = DriverInit(batch_size)
    /\ sample = <<>> /\ outputs = <<>> /\ calls = 0

\* ----------------------------------------------------------------- train()
Bump(log, v) == [log EXCEPT ![Len(log)] = [@ EXCEPT ![v] = @ + 1]]

\* Lines 86-89: the epoch loop is entered and the model set to training mode;
\* line 90 opens a fresh iterator over the training loader.
BeginEpochTo(training) ==
    /\ pc = "epoch_head" /\ i < epochs
    /\ net' = [net EXCEPT !.training = training]
    /\ tIdx' = 0
    /\ pc' = "t_next"
    /\ hist' = [hist EXCEPT !.tLog = Append(@, ZeroCount),
                            !.vLog = Append(@, ZeroCount),
                            !.tFetched = 0, !.vFetched = 0]
    /\ UNCHANGED <<batch_size, sample, outputs, calls, epochs, trainingLoader,
                   validationLoader, i, vIdx, batch, loss, lossVars, modelVars>>

\* Line 89 moved out of the loop: the mode is left as the last epoch set it.
BeginEpoch_noTrainMode == BeginEpochTo(net.training)

BeginEpoch == BeginEpochTo(TRUE)

\* Line 90: the next training batch.
TrainFetch ==
    /\ pc = "t_next" /\ tIdx < trainingLoader.n
    /\ batch' = BatchOf(trainingLoader)
    /\ pc' = "t_forward"
    /\ hist' = [hist EXCEPT !.tFetched = @ + 1]
    /\ UNCHANGED <<driverVars, epochs, trainingLoader, validationLoader, i,
                   tIdx, vIdx, loss, lossVars, modelVars>>

\* Lines 91-93 (and 110-114): layout conversion and the forward pass.
ForwardPass(next) ==
    LET smp == <<Permute0312(batch.img), Transpose(Unsqueeze0(batch.speed))>>
        r == Forward(net, smp)
    IN  /\ sample' = smp
        /\ net' = r.net
        /\ outputs' = r.out
        /\ IF r.out = ERR
           THEN /\ pc' = "failed"
                /\ hist' = [hist EXCEPT !.failedAt = pc, !.cause = "shape",
                                        !.fwdTraining = net.training]
           ELSE /\ pc' = next
                /\ hist' = [hist EXCEPT !.fwdTraining = net.training]
        /\ UNCHANGED <<batch_size, calls, loopVars, lossVars, modelVars>>

TrainForward == pc = "t_forward" /\ ForwardPass("t_loss")

\* Line 94 (and 115): lossFunc(outputs, labels); MSELoss broadcasts its
\* arguments and raises when they cannot be broadcast.
LossCall(next, isTraining) ==
    IF Broadcastable(outputs, batch.labels)
    THEN \E l \in LossVals :
            /\ loss' = l
            /\ pc' = next
            /\ hist' = IF isTraining
                       THEN [hist EXCEPT !.tLog = Bump(@, l)]
                       ELSE [hist EXCEPT !.vLog = Bump(@, l)]
            /\ UNCHANGED <<driverVars, epochs, trainingLoader, validationLoader,
                           i, tIdx, vIdx, batch, lossVars, modelVars>>
    ELSE /\ pc' = "failed"
         /\ hist' = [hist EXCEPT !.failedAt = pc, !.cause = "shape"]
         /\ UNCHANGED <<driverVars, loopVars, lossVars, modelVars>>

TrainLoss == pc = "t_loss" /\ LossCall("t_accum", TRUE)

\* Line 95: the loss is prepended to this epoch's training losses.
TrainAccumulate ==
    /\ pc = "t_accum"
    /\ training_epoch_losses' = <<loss>> \o training_epoch_losses
    /\ pc' = "t_backward"
    /\ UNCHANGED <<driverVars, loopVars, training_losses, validation_losses,
                   validation_epoch_losses, valLossMean, min_lost, modelVars,
                   hist>>

\* Line 96: loss.backward() adds this batch's gradient to .grad.
TrainBackward ==
    /\ pc = "t_backward"
    /\ grad' = grad + 1
    /\ pc' = "t_step"
    /\ UNCHANGED <<driverVars, loopVars, lossVars, ckpt, params, optSteps,
                   visCalls, hist>>

\* Line 97: optimizer.step() updates the parameters from .grad.
TrainStep ==
    /\ pc = "t_step"
    /\ params' = params + 1
    /\ optSteps' = optSteps + 1
    /\ pc' = "t_zero"
    /\ hist' = [hist EXCEPT !.stepGrad = Append(@, grad)]
    /\ UNCHANGED <<driverVars, loopVars, lossVars, ckpt, grad, visCalls>>

\* Line 98: optimizer.zero_grad(); the loop goes to its next batch.
ZeroGradTo(g) ==
    /\ pc = "t_zero"
    /\ grad' = g
    /\ tIdx' = tIdx + 1
    /\ pc' = "t_next"
    /\ UNCHANGED <<driverVars, epochs, trainingLoader, validationLoader, i,
                   vIdx, batch, loss, lossVars, ckpt, params, optSteps,
                   visCalls, hist>>

\* Line 98 left out: the gradients are kept.
TrainZeroGrad_keep == ZeroGradTo(grad)

TrainZeroGrad == ZeroGradTo(0)

\* Lines 100-109: the training loader is exhausted; the epoch's mean training
\* loss is recorded, the accumulator reset, the model set to evaluation mode
\* and a fresh iterator over the validation loader opened.
TrainEpochEndTo(reset) ==
    /\ pc = "t_next" /\ tIdx = trainingLoader.n
    /\ training_losses' = Append(training_losses, Mean(training_epoch_losses))
    /\ training_epoch_losses' = reset
    /\ net' = [net EXCEPT !.training = FALSE]
    /\ vIdx' = 0
    /\ pc' = "v_next"
    /\ hist' = [hist EXCEPT !.valStart = <<params, optSteps>>]
    /\ UNCHANGED <<batch_size, sample, outputs, calls, epochs, trainingLoader,
                   validationLoader, i, tIdx, batch, loss, validation_losses,
                   validation_epoch_losses, valLossMean, min_lost, modelVars>>

\* Line 102 left out: the epoch's losses stay in the accumulator.
TrainEpochEnd_noReset == TrainEpochEndTo(training_epoch_losses)

TrainEpochEnd == TrainEpochEndTo(<<>>)

\* Line 109: the next validation batch.
ValFetch ==
    /\ pc = "v_next" /\ vIdx < validationLoader.n
    /\ batch' = BatchOf(validationLoader)
    /\ pc' = "v_forward"
    /\ hist' = [hist EXCEPT !.vFetched = @ + 1]
    /\ UNCHANGED <<driverVars, epochs, trainingLoader, validationLoader, i,
                   tIdx, vIdx, loss, lossVars, modelVars>>

ValForward == pc = "v_forward" /\ ForwardPass("v_loss")

ValLoss == pc = "v_loss" /\ LossCall("v_accum", FALSE)

\* Line 116: the loss is prepended to this epoch's validation losses; the
\* loop goes to its next batch.
ValAccumulateTo(history) ==
    /\ pc = "v_accum"
    /\ validation_epoch_losses' = <<loss>> \o validation_epoch_losses
    /\ validation_losses' = history
    /\ vIdx' = vIdx + 1
    /\ pc' = "v_next"
    /\ UNCHANGED <<driverVars, epochs, trainingLoader, validationLoader, i,
                   tIdx, batch, loss, training_losses,
                   training_epoch_losses, valLossMean, min_lost, modelVars,
                   hist>>

\* Line 119 moved into the batch loop: the history grows with every batch.
ValAccumulate_appendEach ==
    ValAccumulateTo(Append(validation_losses,
                           Mean(<<loss>> \o validation_epoch_losses)))

ValAccumulate == ValAccumulateTo(validation_losses)

\* Lines 118-120: the validation loader is exhausted; the epoch's mean
\* validation loss is recorded and the accumulator reset.
ValEpochEnd ==
    /\ pc = "v_next" /\ vIdx = validationLoader.n
    /\ valLossMean' = Mean(validation_epoch_losses)
    /\ validation_losses' = Append(validation_losses, Mean(validation_epoch_losses))
    /\ validation_epoch_losses' = <<>>
    /\ pc' = "ckpt"
    /\ UNCHANGED <<driverVars, loopVars, training_losses,
                   training_epoch_losses, min_lost, modelVars, hist>>

\* Line 125: valLossMean < min_lost, with <= in its place.
Improved_ties == ~Less(min_lost, valLossMean) /\ ~IsNaN(valLossMean)

\* Line 125: the test of the checkpoint decision.
Improved == Less(valLossMean, min_lost)

\* Line 126 left out: the running best keeps its value.
NewBest_stale == min_lost

\* Line 126: the value the running best takes.
NewBest == valLossMean

\* Lines 125-128: the checkpoint decision, which ends the epoch.
Checkpoint ==
    /\ pc = "ckpt"
    /\ IF Improved
       THEN /\ min_lost' = NewBest
            /\ ckpt' = <<Snapshot>>
            /\ hist' = [hist EXCEPT !.writes = @ + 1,
                                    !.wroteNow = TRUE,
                                    !.prevBest = min_lost,
                                    !.prevCkpt = ckpt,
                                    !.ckptEpoch = i + 1,
                                    !.epochEnd = Append(@, Snapshot),
                                    !.ckptAtEpochEnd = <<Snapshot>>]
       ELSE /\ UNCHANGED <<min_lost, ckpt>>
            /\ hist' = [hist EXCEPT !.wroteNow = FALSE,
                                    !.prevBest = min_lost,
                                    !.prevCkpt = ckpt,
                                    !.epochEnd = Append(@, Snapshot),
                                    !.ckptAtEpochEnd = ckpt]
    /\ i' = i + 1
    /\ pc' = "epoch_head"
    /\ UNCHANGED <<driverVars, epochs, trainingLoader, validationLoader, tIdx,
                   vIdx, batch, loss, training_losses, validation_losses,
                   training_epoch_losses, validation_epoch_losses, valLossMean,
                   grad, params, optSteps, visCalls>>

\* Line 131: after the last epoch the histories go to vis_train.
VisualizeWhen(reached) ==
    /\ pc = "epoch_head" /\ reached
    /\ visCalls' = Append(visCalls, [trainingMetric |-> training_losses,
                                     validationMetric |-> validation_losses,
                                     epochs |-> epochs])
    /\ pc' = "done"
    /\ UNCHANGED <<driverVars, loopVars, lossVars, ckpt, grad, params,
                   optSteps, hist>>

\* The epoch loop one short: range(epochs - 1).
Visualize_early == VisualizeWhen(i = epochs \/ i = epochs - 1)

Visualize == VisualizeWhen(i = epochs)

\* Positions whose library call can raise for reasons outside the shapes
\* (device, memory, interrupt): lines 93, 94, 96, 97, 114, 115.
RaisingPositions ==
    {"t_forward", "t_loss", "t_backward", "t_step", "v_forward", "v_loss"}

\* train() has no try/except: an exception ends the run where it is raised.
Raise ==
    /\ pc \in RaisingPositions
    /\ pc' = "failed"
    /\ hist' = [hist EXCEPT !.failedAt = pc, !.cause = "external"]
    /\ UNCHANGED <<driverVars, loopVars, lossVars, modelVars>>

Next ==
    \/ BeginEpoch
    \/ TrainFetch
    \/ TrainForward
    \/ TrainLoss
    \/ TrainAccumulate
    \/ TrainBackward
    \/ TrainStep
    \/ TrainZeroGrad
    \/ TrainEpochEnd
    \/ ValFetch
    \/ ValForward
    \/ ValLoss
    \/ ValAccumulate
    \/ ValEpochEnd
    \/ Checkpoint
    \/ Visualize
    \/ Raise

Spec == Init /\ [][Next]_vars

\* ------------------------------------------------- direct use of the Driver
\* Images handed to forward: well-formed ones, taller ones, ones too small
\* for the convolutions, ones with one channel.
ImageShapes ==
    {<<b, c, h, ImgCols>> : b \in 1..MaxBatch, c \in {ImgChannels, 1},
                            h \in {ImgRows, 100, 4}}

SpeedShapes == {<<b, 1>> : b \in 1..MaxBatch}

WellFormed(smp) ==
    /\ smp[1][2] = ImgChannels /\ smp[1][3] = ImgRows /\ smp[1][4] = ImgCols
    /\ smp[2] = <<smp[1][1], 1>>

\* Driver(batch_size) for any positive batch size; train() is not running.
InitDriver ==
    /\ TrainInit
    /\ epochs = 0 /\ trainingLoader.n = 0 /\ validationLoader.n = 0
    /\ trainingLoader.bs = 1 /\ validationLoader.bs = 1
    /\ batch_size \in 1..MaxBatch
    /\ net = DriverInit(batch_size)
    /\ sample = <<>> /\ outputs = <<>> /\ calls = 0

\* net(sample): one call of Driver.forward.
Call ==
    /\ calls < MaxCalls
    /\ \E img \in ImageShapes, spd \in SpeedShapes :
          LET r == Forward(net, <<img, spd>>) IN
          /\ sample' = <<img, spd>>
          /\ net' = r.net
          /\ outputs' = r.out
    /\ calls' = calls + 1
    /\ UNCHANGED <<batch_size, pc, loopVars, lossVars, modelVars, hist>>

NextDriver == Call

SpecDriver == InitDriver /\ [][NextDriver]_vars

\* ================================================================= claims
\* Comparisons of recorded means, as the claims state them.
StrictlyLower(a, b) == a[2] # 0 /\ b[2] # 0 /\ a[1] * b[2] < b[1] * a[2]
Equal(a, b) == a[2] # 0 /\ b[2] # 0 /\ a[1] * b[2] = b[1] * a[2]

\* Mean validation loss of epoch k (1-based).
ValMean(k) == validation_losses[k]

\* m is the least of the sentinel and the mean validation losses of epochs 1..k.
IsBestOf(m, k) ==
    /\ \/ m = Scalar(Sentinel)
       \/ \E j \in 1..k : m = ValMean(j)
    /\ ~StrictlyLower(Scalar(Sentinel), m)
    /\ \A j \in 1..k : ~StrictlyLower(ValMean(j), m)

\* Epoch k's mean validation loss undercuts the sentinel and every earlier epoch's.
BelowAllPrior(k) ==
    /\ StrictlyLower(ValMean(k), Scalar(Sentinel))
    /\ \A j \in 1..(k - 1) : IsNaN(ValMean(j)) \/ StrictlyLower(ValMean(k), ValMean(j))

RECURSIVE CountSum(_, _)
CountSum(cnt, vals) ==
    IF vals = {} THEN <<0, 0>>
    ELSE LET v == CHOOSE x \in vals : TRUE
             r == CountSum(cnt, vals \ {v})
         IN  <<r[1] + v * cnt[v], r[2] + cnt[v]>>

\* Mean of the losses logged for one epoch.
LogMean(cnt) == LET r == CountSum(cnt, LossVals) IN IF r[2] = 0 THEN NaN ELSE r

TrainPositions == {"t_next", "t_forward", "t_loss", "t_accum", "t_backward",
                   "t_step", "t_zero"}
ValPositions == {"v_next", "v_forward", "v_loss", "v_accum"}

\* C1: after every checkpoint decision, the file was overwritten by it if and
\* only if that epoch's mean validation loss is strictly lower than the
\* sentinel and than every earlier epoch's; a decision that does not write
\* leaves the file and the running best as they were.
C1_WriteIffImproved ==
    i > 0 =>
        /\ hist.wroteNow <=> BelowAllPrior(i)
        /\ hist.wroteNow => /\ min_lost = ValMean(i)
                            /\ ckpt = <<hist.epochEnd[i]>>
        /\ ~hist.wroteNow => /\ min_lost = hist.prevBest
                             /\ ckpt = hist.prevCkpt

\* C1 witness: the second epoch ties the first one's mean, which had been
\* saved, and is not saved.
C1_Witness ==
    /\ i = 2 /\ hist.writes = 1 /\ ~hist.wroteNow
    /\ Equal(ValMean(1), ValMean(2))
    /\ trainingLoader.n > 0

\* C2: a run with epochs = 1 and non-empty loaders that no external failure
\* interrupts ends with one entry in each history and a checkpoint written.
C2_OneEpochRun ==
    (/\ epochs = 1 /\ trainingLoader.n >= 1 /\ validationLoader.n >= 1
     /\ pc \in {"done", "failed"} /\ hist.cause # "external")
    => /\ pc = "done"
       /\ Len(training_losses) = 1
       /\ Len(validation_losses) = 1
       /\ hist.writes = 1 /\ ckpt # <<>>

\* C3 as stated: after a failure neither history has an entry for the epoch
\* that failed, and the file is what it was at the end of the last completed
\* epoch.
C3_Claim ==
    pc = "failed" =>
        /\ Len(training_losses) = i
        /\ Len(validation_losses) = i
        /\ ckpt = hist.ckptAtEpochEnd

\* C3 amended: after a failure the validation history has no entry for the
\* epoch that failed, the training history has one exactly when the failure
\* came in the validation phase, and the file is what it was at the end of
\* the last completed epoch.
C3_Amended ==
    pc = "failed" =>
        /\ Len(validation_losses) = i
        /\ Len(training_losses) = IF hist.failedAt \in ValPositions THEN i + 1 ELSE i
        /\ ckpt = hist.ckptAtEpochEnd
        /\ Len(visCalls) = 0

\* C3 witness: a failure in the validation phase of the second epoch, after
\* the first epoch wrote the file.
C3_Witness ==
    /\ pc = "failed" /\ hist.failedAt = "v_loss" /\ i = 1
    /\ ckpt # <<>> /\ params > ckpt[1].params

\* C4: a forward call on an image (B,3,66,200) and a speed (B,1) returns B
\* scalars, the last layer having one output.
C4_OnePerSample ==
    (calls > 0 /\ WellFormed(sample))
    => /\ net.lin4.fout = 1
       /\ outputs = <<sample[1][1]>>

\* C5: validation forward passes run in evaluation mode and the validation
\* phase changes neither the parameters, the optimizer state nor the
\* gradients; training forward passes run in training mode.
C5_Modes ==
    /\ pc = "v_forward" => ~net.training
    /\ pc = "v_loss" => ~hist.fwdTraining
    /\ pc \in ValPositions \cup {"ckpt"} =>
           /\ <<params, optSteps>> = hist.valStart
           /\ grad = 0
           /\ Len(hist.stepGrad) = optSteps
    /\ pc = "t_forward" => net.training
    /\ pc = "t_loss" => hist.fwdTraining

\* C5 witness: a validation forward pass of the second epoch, whose training
\* phase followed the first epoch's validation phase.
C5_Witness ==
    /\ pc = "v_loss" /\ i = 1
    /\ trainingLoader.n > 0 /\ validationLoader.n > 0
    /\ params = 2 * trainingLoader.n

\* Steps of one training batch in their order.
C6_Order ==
    /\ pc = "t_forward" => pc' \in {"t_loss", "failed"}
    /\ pc = "t_loss" => pc' \in {"t_accum", "failed"}
    /\ pc = "t_accum" => pc' = "t_backward"
    /\ pc = "t_backward" => pc' \in {"t_step", "failed"}
    /\ pc = "t_step" => pc' \in {"t_zero", "failed"}
    /\ pc = "t_zero" => pc' = "t_next"
    /\ optSteps' # optSteps => (pc = "t_step" /\ optSteps' = optSteps + 1)
    /\ grad' > grad => pc = "t_backward"

\* The first training batch of the run.
FirstBatch == i = 0 /\ tIdx = 0

C6_State ==
    /\ (pc = "t_backward" /\ ~FirstBatch) => grad = 0
    /\ pc = "t_step" => grad = 1
    /\ \A k \in 1..Len(hist.stepGrad) : hist.stepGrad[k] = 1
    /\ Len(hist.stepGrad) = optSteps
    /\ pc \in {"epoch_head", "done"} => optSteps = i * trainingLoader.n
    /\ pc \in TrainPositions =>
           optSteps = i * trainingLoader.n + tIdx + (IF pc = "t_zero" THEN 1 ELSE 0)

\* C6: each training batch goes forward, loss, accumulate, backward, one
\* optimizer step, gradient clearing; the gradient is zero when a backward
\* pass starts, each step uses one batch's gradient, N epochs of K batches
\* make N*K steps.
C6_BatchSteps == []C6_State /\ [][C6_Order]_vars

\* C6 witness: two epochs of two batches are done, four steps were taken.
C6_Witness ==
    /\ pc = "done" /\ epochs = 2 /\ trainingLoader.n = 2 /\ optSteps = 4

\* C7: after n completed epochs each history has n entries, and entry k is
\* the mean of the losses of epoch k's batches of that phase alone.
C7_Histories ==
    /\ pc \in {"epoch_head", "done"} =>
           Len(training_losses) = i /\ Len(validation_losses) = i
    /\ Len(training_losses) \in {i, i + 1} /\ Len(validation_losses) \in {i, i + 1}
    /\ \A k \in 1..Len(training_losses) : training_losses[k] = LogMean(hist.tLog[k])
    /\ \A k \in 1..Len(validation_losses) : validation_losses[k] = LogMean(hist.vLog[k])

\* C7 witness: two epochs of two batches each, whose four means differ.
C7_Witness ==
    /\ pc = "done" /\ epochs = 2
    /\ trainingLoader.n = 2 /\ validationLoader.n = 2
    /\ training_losses[1] # training_losses[2]
    /\ validation_losses[1] # validation_losses[2]
    /\ training_losses[2] # validation_losses[2]

\* Image (., 3, 66, 200): the shape the network is built for.
ExpectedImage(img) == img[2] = ImgChannels /\ img[3] = ImgRows /\ img[4] = ImgCols

\* C8 as stated: the stored width is 64 x 1 x 18 whatever the construction
\* batch size, is the input width of lin1, and no forward call changes it.
C8_Claim ==
    /\ net.flattened_size = 64 * 1 * 18
    /\ net.lin1.fin = net.flattened_size

\* C8 amended: lin1's input width is 64 x 1 x 18 for every construction batch
\* size and never changes; the stored width has that value after
\* construction and after every forward call on a 3x66x200 image.
C8_Amended ==
    /\ net.lin1.fin = 64 * 1 * 18
    /\ (calls = 0 \/ ExpectedImage(sample[1])) => net.flattened_size = 64 * 1 * 18

\* C8 witness: a network built for the largest batch size has answered a call
\* on well-formed input of another batch size.
C8_Witness ==
    /\ batch_size = MaxBatch /\ calls = MaxCalls
    /\ WellFormed(sample) /\ sample[1][1] # batch_size
    /\ outputs # ERR

\* Epoch (1-based) that first reached the running best.
EarliestBest == CHOOSE e \in 1..i : /\ Equal(ValMean(e), min_lost)
                                     /\ \A j \in 1..(e - 1) : ~Equal(ValMean(j), min_lost)

C9_State ==
    pc # "ckpt" =>
        /\ IsBestOf(min_lost, i)
        /\ hist.writes > 0 =>
               /\ \E e \in 1..i : Equal(ValMean(e), min_lost)
               /\ hist.ckptEpoch = EarliestBest
               /\ ckpt = <<hist.epochEnd[EarliestBest]>>
        /\ hist.writes = 0 => ckpt = <<>> /\ min_lost = Scalar(Sentinel)

\* C9: the running best never rises and is the least of the sentinel and the
\* recorded mean validation losses; a written file holds the model of the
\* end of the earliest epoch whose mean equals the running best.
C9_BestCheckpoint == []C9_State /\ [][~StrictlyLower(min_lost, min_lost')]_vars

\* C9 witness: the first epoch was saved, the second tied it.
C9_Witness ==
    /\ pc = "done" /\ i = 2 /\ hist.writes = 1 /\ hist.ckptEpoch = 1
    /\ Equal(ValMean(2), min_lost)
    /\ trainingLoader.n > 0
    /\ hist.epochEnd[1] # hist.epochEnd[2]

\* C10: in an epoch the training loader is read to its end once, then the
\* validation loader, then the checkpoint decision is taken; epochs follow one
\* another; vis_train is called once, after the last decision, with one entry
\* per epoch in each history.
C10_Sequence ==
    /\ pc \in TrainPositions => hist.vFetched = 0 /\ hist.tFetched <= trainingLoader.n
    /\ pc \in ValPositions \cup {"ckpt"} => hist.tFetched = trainingLoader.n
    /\ pc = "ckpt" => hist.vFetched = validationLoader.n
    /\ (pc = "epoch_head" /\ i > 0) =>
           hist.tFetched = trainingLoader.n /\ hist.vFetched = validationLoader.n
    /\ Len(hist.epochEnd) = i /\ i <= epochs
    /\ Len(visCalls) = (IF pc = "done" THEN 1 ELSE 0)
    /\ pc = "done" =>
           /\ i = epochs
           /\ visCalls[1].trainingMetric = training_losses
           /\ visCalls[1].validationMetric = validation_losses
           /\ Len(training_losses) = epochs
           /\ Len(validation_losses) = epochs

\* C10 witness: vis_train has been called after two epochs over non-empty
\* loaders.
C10_Witness ==
    /\ pc = "done" /\ epochs = 2 /\ Len(visCalls) = 1
    /\ trainingLoader.n = 2 /\ validationLoader.n = 2

====
